---- MODULE Spec2Model ----
(***************************************************************************)
(* The discover command of src/protocol/discover.go: the main goroutine    *)
(* enumerates the connector's streams, starts one sampling pipeline per    *)
(* stream (a consumer goroutine that owns a buffered channel and starts a  *)
(* producer goroutine running connector.Read), waits on a sync.WaitGroup   *)
(* and logs the catalog.  logger.Fatal / logger.Fatalf end the process.    *)
(***************************************************************************)
EXTENDS Integers, Sequences, FiniteSets, TLC

\* recordsPerStream := 100 in the source; scaled down so that every
\* interleaving of producer and consumer can be enumerated.
recordsPerStream == 2

\* Longest source sequence a stream offers in the model.
MaxSrc == 5

\* Longest sample handed to the resolver when it is checked on its own.
MaxSample == 3

\* Names of the streams the connector may enumerate.
StreamNames == {"s1", "s2"}

VARIABLES
    mpc,        \* position of the main goroutine (RunE)
    exit,       \* "running", "fatal" (os.Exit(1)), "panic", "ok" (RunE returned)
    streams,    \* result of connector.Discover()
    source,     \* per stream: the records connector.Read can obtain
    mIdx,       \* index of the next stream of the range loop
    group,      \* sync.WaitGroup counter
    cpc,        \* per stream: position of the pipeline (consumer) goroutine
    ppc,        \* per stream: position of the producer goroutine
    channel,    \* per stream: records buffered in the channel
    capacity,   \* per stream: capacity the channel was made with
    closed,     \* per stream: the channel is closed
    closedBy,   \* per stream: which goroutine closed the channel first
    pos,        \* per stream: number of records Read has sent into the channel
    count,      \* per stream: the consumer's count
    objects,    \* per stream: the consumer's sample buffer
    properties, \* per stream: result of typing.Resolve held by the consumer
    schema,     \* per stream: the stream's JSON schema slot
    catalog,    \* the streams handed to logger.LogCatalog
    doneOrder   \* streams in the order of their group.Done()

vars == <<mpc, exit, streams, source, mIdx, group, cpc, ppc, channel, capacity,
          closed, closedBy, pos, count, objects, properties, schema, catalog, doneOrder>>

mainVars == <<mpc, streams, source, mIdx, catalog>>
consVars == <<cpc, count, objects, properties, schema, doneOrder>>
prodVars == <<ppc, pos>>
chanVars == <<channel, capacity, closed, closedBy>>

----------------------------------------------------------------------------
\* Records and the schema resolver

KindOrder == <<"integer", "number", "string", "boolean", "null">>

NoProps == [f \in {} |-> "null"]

\* A JSON-compatible value as a tagged variant: its Kind, the field->value
\* mapping of an object, the elements of an array.
Scalar(k) == [kind |-> k, props |-> NoProps, elems |-> <<>>]

Obj(p) == [kind |-> "object", props |-> p, elems |-> <<>>]

Arr(e) == [kind |-> "array", props |-> NoProps, elems |-> e]

\* The i-th record of a well-formed source: a field->value mapping.  Records
\* at different positions differ.
Rec(i) ==
    Obj([f \in (IF i % 2 = 0 THEN {"a", "b"} ELSE {"a"}) |->
            IF f = "a" THEN Scalar(KindOrder[(i % 5) + 1]) ELSE Scalar("string")])

\* A sampled value that is not a field->value mapping.
BadRecord == Scalar("string")

GoodSrc(n) == [i \in 1..n |-> Rec(i)]

Sources == {GoodSrc(n) : n \in 0..MaxSrc} \cup {<<BadRecord>>}

\* The values field f takes in the records that have it, in sample order.
Occurrences(f, objs) ==
    LET has == SelectSeq(objs, LAMBDA o : f \in DOMAIN o.props)
    IN  [i \in DOMAIN has |-> has[i].props[f]]

\* The Kinds of the non-null values, in order.
NonNullKinds(vals) ==
    LET nn == SelectSeq(vals, LAMBDA v : v.kind # "null")
    IN  [i \in DOMAIN nn |-> nn[i].kind]

\* integer and number together widen to number.
Widen(kinds) ==
    IF (\E i \in DOMAIN kinds : kinds[i] = "integer")
       /\ (\E i \in DOMAIN kinds : kinds[i] = "number")
    THEN [i \in DOMAIN kinds |->
            IF kinds[i] = "integer" THEN "number" ELSE kinds[i]]
    ELSE kinds

RECURSIVE Dedup(_)
\* The distinct Kinds, ordered by first appearance.
Dedup(s) ==
    IF s = <<>> THEN <<>>
    ELSE <<Head(s)>> \o SelectSeq(Dedup(Tail(s)), LAMBDA k : k # Head(s))

RECURSIVE Flatten(_)
\* All elements of every array instance, in order.
Flatten(arrs) ==
    IF arrs = <<>> THEN <<>> ELSE Head(arrs).elems \o Flatten(Tail(arrs))

NoSchema == [f \in {} |-> [type |-> <<"null">>, nullable |-> TRUE]]

RECURSIVE ResolveValues(_, _)
RECURSIVE ResolveProps(_)
RECURSIVE ResolveField(_, _)

\* The type descriptor of the occurrences vals of one field (absent: some
\* record lacks the field): one Kind, or a union over the distinct Kinds in
\* order of first appearance; the merged property schema of its object
\* values; one shared element descriptor for its array values.
ResolveValues(vals, absent) ==
    LET kinds == Dedup(Widen(NonNullKinds(vals)))
        objv  == SelectSeq(vals, LAMBDA v : v.kind = "object")
        arrv  == SelectSeq(vals, LAMBDA v : v.kind = "array")
    IN  [type     |-> IF kinds = <<>> THEN <<"null">> ELSE kinds,
         nullable |-> absent \/ (\E i \in DOMAIN vals : vals[i].kind = "null"),
         props    |-> IF objv = <<>> THEN NoSchema ELSE ResolveProps(objv),
         elem     |-> IF arrv = <<>> THEN <<>>
                      ELSE <<ResolveValues(Flatten(arrv), FALSE)>>]

\* The property schema of a sequence of object values.
ResolveProps(objs) ==
    [f \in UNION {DOMAIN objs[i].props : i \in DOMAIN objs} |->
        ResolveField(f, objs)]

ResolveField(f, objs) ==
    ResolveValues(Occurrences(f, objs),
                  \E i \in DOMAIN objs : f \notin DOMAIN objs[i].props)

\* typing.Resolve(objects...): the property schema of a sample, or an error
\* when a sampled value is not a field->value mapping.
Resolve(objs) ==
    IF \E i \in DOMAIN objs : objs[i].kind # "object"
    THEN [err |-> TRUE, properties |-> NoSchema]
    ELSE [err |-> FALSE, properties |-> ResolveProps(objs)]

----------------------------------------------------------------------------
\* Channel primitives

\* safego.Close(channel): closes the channel; closing a closed channel is
\* recovered and has no effect.
safegoClose(isClosed) == [closed |-> TRUE, panic |-> FALSE]

\* close(channel) without recovery: closing a closed channel panics.
rawClose(isClosed) == [closed |-> TRUE, panic |-> isClosed]

----------------------------------------------------------------------------
Running == exit = "running"

StreamLists ==
    {<<>>} \cup {<<s>> : s \in StreamNames}
           \cup {x \in StreamNames \X StreamNames : x[1] # x[2]}

Init ==
    /\ mpc = "assert"
    /\ exit = "running"
    /\ streams = <<>>
    /\ source = [s \in StreamNames |-> <<>>]
    /\ mIdx = 1
    /\ group = 0
    /\ cpc = [s \in StreamNames |-> "none"]
    /\ ppc = [s \in StreamNames |-> "none"]
    /\ channel = [s \in StreamNames |-> <<>>]
    /\ capacity = [s \in StreamNames |-> 0]
    /\ closed = [s \in StreamNames |-> FALSE]
    /\ closedBy = [s \in StreamNames |-> "none"]
    /\ pos = [s \in StreamNames |-> 0]
    /\ count = [s \in StreamNames |-> 0]
    /\ objects = [s \in StreamNames |-> <<>>]
    /\ properties = [s \in StreamNames |-> NoSchema]
    /\ schema = [s \in StreamNames |-> [set |-> FALSE, properties |-> NoSchema]]
    /\ catalog = <<>>
    /\ doneOrder = <<>>

Range(seq) == {seq[i] : i \in DOMAIN seq}

----------------------------------------------------------------------------
\* The main goroutine (RunE)

\* connector, not := rawConnector.(Driver); logger.Fatal when it fails.
MainAssert ==
    /\ Running /\ mpc = "assert"
    /\ \E ok \in BOOLEAN : mpc' = IF ok THEN "setup" ELSE "fatal"
    /\ UNCHANGED <<exit, streams, source, mIdx, catalog, group,
                   consVars, prodVars, chanVars>>

\* connector.Setup(...); logger.Fatal(err) on error.
MainSetup ==
    /\ Running /\ mpc = "setup"
    /\ \E ok \in BOOLEAN : mpc' = IF ok THEN "check" ELSE "fatal"
    /\ UNCHANGED <<exit, streams, source, mIdx, catalog, group,
                   consVars, prodVars, chanVars>>

\* connector.Check(); logger.Fatal(err) on error.
MainCheck ==
    /\ Running /\ mpc = "check"
    /\ \E ok \in BOOLEAN : mpc' = IF ok THEN "discover" ELSE "fatal"
    /\ UNCHANGED <<exit, streams, source, mIdx, catalog, group,
                   consVars, prodVars, chanVars>>

\* Variant of MainDiscover: the len(streams) == 0 test is missing.
MainDiscover_NoEmptyCheck ==
    /\ Running /\ mpc = "discover"
    /\ \E ok \in BOOLEAN, list \in StreamLists, src \in [StreamNames -> Sources] :
          IF ok
          THEN /\ streams' = list
               /\ source' = [s \in StreamNames |->
                               IF s \in Range(list) THEN src[s] ELSE <<>>]
               /\ mpc' = "spawn"
          ELSE /\ mpc' = "fatal"
               /\ UNCHANGED <<streams, source>>
    /\ UNCHANGED <<exit, mIdx, catalog, group, consVars, prodVars, chanVars>>

\* streams, err := connector.Discover(); Fatal on error and on len(streams) == 0.
MainDiscover ==
    /\ Running /\ mpc = "discover"
    /\ \E ok \in BOOLEAN, list \in StreamLists, src \in [StreamNames -> Sources] :
          IF ok
          THEN /\ streams' = list
               /\ source' = [s \in StreamNames |->
                               IF s \in Range(list) THEN src[s] ELSE <<>>]
               /\ mpc' = IF Len(list) = 0 THEN "nostreams" ELSE "spawn"
          ELSE /\ mpc' = "fatal"
               /\ UNCHANGED <<streams, source>>
    /\ UNCHANGED <<exit, mIdx, catalog, group, consVars, prodVars, chanVars>>

\* One iteration of the range loop: group.Add(1) and go func() {...}().
MainSpawn ==
    /\ Running /\ mpc = "spawn" /\ mIdx <= Len(streams)
    /\ group' = group + 1
    /\ cpc' = [cpc EXCEPT ![streams[mIdx]] = "start"]
    /\ mIdx' = mIdx + 1
    /\ UNCHANGED <<mpc, exit, streams, source, catalog, count, objects,
                   properties, schema, doneOrder, prodVars, chanVars>>

\* Variant of MainWait: the loop is left without waiting on the group.
MainWait_NoBarrier ==
    /\ Running /\ mpc = "spawn" /\ mIdx > Len(streams)
    /\ mpc' = "assemble"
    /\ UNCHANGED <<exit, streams, source, mIdx, catalog, group,
                   consVars, prodVars, chanVars>>

\* group.Wait() returns once the counter is zero.
MainWait ==
    /\ Running /\ mpc = "spawn" /\ mIdx > Len(streams)
    /\ group = 0
    /\ mpc' = "assemble"
    /\ UNCHANGED <<exit, streams, source, mIdx, catalog, group,
                   consVars, prodVars, chanVars>>

\* utils.ArrayContains(streams, f): calls f on the elements in order and
\* stops at the first one f accepts (accepted: the elements f returns true
\* for); the sequence of elements f was called on.
ArrayContainsVisited(seq, accepted) ==
    LET hits == {i \in DOMAIN seq : seq[i] \in accepted}
        last == IF hits = {} THEN Len(seq)
                ELSE CHOOSE i \in hits : \A j \in hits : i <= j
    IN  SubSeq(seq, 1, last)

\* elem.GetStream(): the stream with its name and its JSON schema slot.
GetStream(s) == [name |-> s, schema |-> schema[s]]

\* Variant of MainLogCatalog: the catalog lists the streams in the order
\* their pipelines finished.
MainLogCatalog_DoneOrder ==
    /\ Running /\ mpc = "assemble"
    /\ LET visited == ArrayContainsVisited(doneOrder, {})
       IN  catalog' = [i \in DOMAIN visited |-> GetStream(visited[i])]
    /\ mpc' = "logged"
    /\ UNCHANGED <<exit, streams, source, mIdx, group,
                   consVars, prodVars, chanVars>>

\* unwrappedStreams built through ArrayContains with a callback that appends
\* and returns false, then logger.LogCatalog(unwrappedStreams).
MainLogCatalog ==
    /\ Running /\ mpc = "assemble"
    /\ LET visited == ArrayContainsVisited(streams, {})
       IN  catalog' = [i \in DOMAIN visited |-> GetStream(visited[i])]
    /\ mpc' = "logged"
    /\ UNCHANGED <<exit, streams, source, mIdx, group,
                   consVars, prodVars, chanVars>>

\* return nil: the command ends and with it the process.
MainReturn ==
    /\ Running /\ mpc = "logged"
    /\ mpc' = "returned"
    /\ exit' = "ok"
    /\ UNCHANGED <<streams, source, mIdx, catalog, group,
                   consVars, prodVars, chanVars>>

\* logger.Fatal in the main goroutine: os.Exit(1).
MainFatal ==
    /\ Running /\ mpc \in {"fatal", "nostreams"}
    /\ exit' = "fatal"
    /\ UNCHANGED <<mainVars, group, consVars, prodVars, chanVars>>

----------------------------------------------------------------------------
\* The pipeline goroutine of stream s: the consumer of the channel

\* Variant of ConsumerStart: the channel is made one slot too large.
ConsumerStart_OverCapacity(s) ==
    /\ Running /\ cpc[s] = "start"
    /\ objects' = [objects EXCEPT ![s] = <<>>]
    /\ channel' = [channel EXCEPT ![s] = <<>>]
    /\ capacity' = [capacity EXCEPT ![s] = recordsPerStream + 1]
    /\ closed' = [closed EXCEPT ![s] = FALSE]
    /\ count' = [count EXCEPT ![s] = 0]
    /\ ppc' = [ppc EXCEPT ![s] = "fetch"]
    /\ cpc' = [cpc EXCEPT ![s] = "loop"]
    /\ UNCHANGED <<mainVars, exit, group, closedBy, pos, properties, schema,
                   doneOrder>>

\* objects := []; channel := make(chan, recordsPerStream); count := 0;
\* go func() { connector.Read(stream, channel) ... }()
ConsumerStart(s) ==
    /\ Running /\ cpc[s] = "start"
    /\ objects' = [objects EXCEPT ![s] = <<>>]
    /\ channel' = [channel EXCEPT ![s] = <<>>]
    /\ capacity' = [capacity EXCEPT ![s] = recordsPerStream]
    /\ closed' = [closed EXCEPT ![s] = FALSE]
    /\ count' = [count EXCEPT ![s] = 0]
    /\ ppc' = [ppc EXCEPT ![s] = "fetch"]
    /\ cpc' = [cpc EXCEPT ![s] = "loop"]
    /\ UNCHANGED <<mainVars, exit, group, closedBy, pos, properties, schema,
                   doneOrder>>

\* Variant of ConsumerRecv: the receive takes the newest buffered record
\* instead of the oldest.
ConsumerRecv_Newest(s) ==
    /\ Running /\ cpc[s] = "loop"
    /\ channel[s] # <<>>
    /\ channel' = [channel EXCEPT ![s] = SubSeq(channel[s], 1, Len(channel[s]) - 1)]
    /\ count' = [count EXCEPT ![s] = count[s] + 1]
    /\ objects' = [objects EXCEPT ![s] = Append(objects[s], channel[s][Len(channel[s])])]
    /\ cpc' = [cpc EXCEPT ![s] = "check"]
    /\ UNCHANGED <<mainVars, exit, group, capacity, closed, closedBy, prodVars,
                   properties, schema, doneOrder>>

\* for record := range channel: one receive, then count++ and append.
ConsumerRecv(s) ==
    /\ Running /\ cpc[s] = "loop"
    /\ channel[s] # <<>>
    /\ channel' = [channel EXCEPT ![s] = Tail(channel[s])]
    /\ count' = [count EXCEPT ![s] = count[s] + 1]
    /\ objects' = [objects EXCEPT ![s] = Append(objects[s], Head(channel[s]))]
    /\ cpc' = [cpc EXCEPT ![s] = "check"]
    /\ UNCHANGED <<mainVars, exit, group, capacity, closed, closedBy, prodVars,
                   properties, schema, doneOrder>>

\* Variant of ConsumerCheck: the early-stop test is off by one.
ConsumerCheck_OffByOne(s) ==
    /\ Running /\ cpc[s] = "check"
    /\ IF count[s] >= recordsPerStream - 1
       THEN LET r == safegoClose(closed[s])
            IN  /\ closed' = [closed EXCEPT ![s] = r.closed]
                /\ closedBy' = IF closed[s] THEN closedBy
                               ELSE [closedBy EXCEPT ![s] = "consumer"]
                /\ exit' = IF r.panic THEN "panic" ELSE exit
       ELSE UNCHANGED <<closed, closedBy, exit>>
    /\ cpc' = [cpc EXCEPT ![s] = "loop"]
    /\ UNCHANGED <<mainVars, group, channel, capacity, prodVars, count, objects,
                   properties, schema, doneOrder>>

\* Variant of ConsumerCheck: close(channel) without recovery.
ConsumerCheck_RawClose(s) ==
    /\ Running /\ cpc[s] = "check"
    /\ IF count[s] >= recordsPerStream
       THEN LET r == rawClose(closed[s])
            IN  /\ closed' = [closed EXCEPT ![s] = r.closed]
                /\ closedBy' = IF closed[s] THEN closedBy
                               ELSE [closedBy EXCEPT ![s] = "consumer"]
                /\ exit' = IF r.panic THEN "panic" ELSE exit
       ELSE UNCHANGED <<closed, closedBy, exit>>
    /\ cpc' = [cpc EXCEPT ![s] = "loop"]
    /\ UNCHANGED <<mainVars, group, channel, capacity, prodVars, count, objects,
                   properties, schema, doneOrder>>

\* if count >= recordsPerStream { safego.Close(channel) }
ConsumerCheck(s) ==
    /\ Running /\ cpc[s] = "check"
    /\ IF count[s] >= recordsPerStream
       THEN LET r == safegoClose(closed[s])
            IN  /\ closed' = [closed EXCEPT ![s] = r.closed]
                /\ closedBy' = IF closed[s] THEN closedBy
                               ELSE [closedBy EXCEPT ![s] = "consumer"]
                /\ exit' = IF r.panic THEN "panic" ELSE exit
       ELSE UNCHANGED <<closed, closedBy, exit>>
    /\ cpc' = [cpc EXCEPT ![s] = "loop"]
    /\ UNCHANGED <<mainVars, group, channel, capacity, prodVars, count, objects,
                   properties, schema, doneOrder>>

\* Variant of ConsumerLoopEnd: the loop is left as soon as the channel is
\* closed, whatever it still holds.
ConsumerLoopEnd_OnClose(s) ==
    /\ Running /\ cpc[s] = "loop"
    /\ closed[s]
    /\ cpc' = [cpc EXCEPT ![s] = "resolve"]
    /\ UNCHANGED <<mainVars, exit, group, chanVars, prodVars, count, objects,
                   properties, schema, doneOrder>>

\* Variant of ConsumerLoopEnd: the loop is left as soon as no record is
\* waiting (a receive that does not block).
ConsumerLoopEnd_OnEmpty(s) ==
    /\ Running /\ cpc[s] = "loop"
    /\ channel[s] = <<>>
    /\ cpc' = [cpc EXCEPT ![s] = "resolve"]
    /\ UNCHANGED <<mainVars, exit, group, chanVars, prodVars, count, objects,
                   properties, schema, doneOrder>>

\* The range loop ends when the channel is closed and drained.
ConsumerLoopEnd(s) ==
    /\ Running /\ cpc[s] = "loop"
    /\ channel[s] = <<>> /\ closed[s]
    /\ cpc' = [cpc EXCEPT ![s] = "resolve"]
    /\ UNCHANGED <<mainVars, exit, group, chanVars, prodVars, count, objects,
                   properties, schema, doneOrder>>

\* Variant of ConsumerResolve: the last sampled record is left out of the
\* call (objects[:len(objects)-1]).
ConsumerResolve_DropLast(s) ==
    /\ Running /\ cpc[s] = "resolve"
    /\ LET r == Resolve(SubSeq(objects[s], 1, Len(objects[s]) - 1))
       IN  IF r.err
           THEN /\ cpc' = [cpc EXCEPT ![s] = "fatal"]
                /\ UNCHANGED properties
           ELSE /\ cpc' = [cpc EXCEPT ![s] = "attach"]
                /\ properties' = [properties EXCEPT ![s] = r.properties]
    /\ UNCHANGED <<mainVars, exit, group, chanVars, prodVars, count, objects,
                   schema, doneOrder>>

\* properties, err := typing.Resolve(objects...); logger.Fatal(err) on error.
ConsumerResolve(s) ==
    /\ Running /\ cpc[s] = "resolve"
    /\ LET r == Resolve(objects[s])
       IN  IF r.err
           THEN /\ cpc' = [cpc EXCEPT ![s] = "fatal"]
                /\ UNCHANGED properties
           ELSE /\ cpc' = [cpc EXCEPT ![s] = "attach"]
                /\ properties' = [properties EXCEPT ![s] = r.properties]
    /\ UNCHANGED <<mainVars, exit, group, chanVars, prodVars, count, objects,
                   schema, doneOrder>>

\* Variant of ConsumerAttach: the goroutine uses the range variable stream_
\* itself (no per-iteration copy stream := stream_), so the schema goes to
\* the stream the range loop reached last.
ConsumerAttach_RangeVar(s) ==
    /\ Running /\ cpc[s] = "attach"
    /\ schema' = [schema EXCEPT ![streams[mIdx - 1]] =
                      [set |-> TRUE, properties |-> properties[s]]]
    /\ cpc' = [cpc EXCEPT ![s] = "signal"]
    /\ UNCHANGED <<mainVars, exit, group, chanVars, prodVars, count, objects,
                   properties, doneOrder>>

\* stream.Self().WithJSONSchema(types.Schema{Properties: properties})
ConsumerAttach(s) ==
    /\ Running /\ cpc[s] = "attach"
    /\ schema' = [schema EXCEPT ![s] = [set |-> TRUE, properties |-> properties[s]]]
    /\ cpc' = [cpc EXCEPT ![s] = "signal"]
    /\ UNCHANGED <<mainVars, exit, group, chanVars, prodVars, count, objects,
                   properties, doneOrder>>

\* Variant of ConsumerDone: after group.Done() the goroutine resets the
\* stream's schema (WithJSONSchema(types.Schema{})).
ConsumerDone_ResetsSchema(s) ==
    /\ Running /\ cpc[s] = "signal"
    /\ group' = group - 1
    /\ doneOrder' = Append(doneOrder, s)
    /\ schema' = [schema EXCEPT ![s] = [set |-> TRUE, properties |-> NoSchema]]
    /\ cpc' = [cpc EXCEPT ![s] = "done"]
    /\ UNCHANGED <<mainVars, exit, chanVars, prodVars, count, objects,
                   properties>>

\* group.Done()
ConsumerDone(s) ==
    /\ Running /\ cpc[s] = "signal"
    /\ group' = group - 1
    /\ doneOrder' = Append(doneOrder, s)
    /\ cpc' = [cpc EXCEPT ![s] = "done"]
    /\ UNCHANGED <<mainVars, exit, chanVars, prodVars, count, objects,
                   properties, schema>>

\* logger.Fatal(err) after a failed Resolve: os.Exit(1).
ConsumerFatal(s) ==
    /\ Running /\ cpc[s] = "fatal"
    /\ exit' = "fatal"
    /\ UNCHANGED <<mainVars, group, consVars, prodVars, chanVars>>

----------------------------------------------------------------------------
\* The producer goroutine of stream s: connector.Read(stream, channel)

\* Read obtains the next record of the source, or finds it exhausted and
\* returns nil.
ReadFetch(s) ==
    /\ Running /\ ppc[s] = "fetch"
    /\ ppc' = [ppc EXCEPT ![s] = IF pos[s] < Len(source[s]) THEN "send" ELSE "ok"]
    /\ UNCHANGED <<mainVars, exit, group, consVars, chanVars, pos>>

\* Read fails while obtaining records and returns an error.
ReadFail(s) ==
    /\ Running /\ ppc[s] = "fetch"
    /\ ppc' = [ppc EXCEPT ![s] = "err"]
    /\ UNCHANGED <<mainVars, exit, group, consVars, chanVars, pos>>

\* Read blocks inside the connector while obtaining records and never
\* comes back: it neither returns nor fails.
ReadStall(s) ==
    /\ Running /\ ppc[s] = "fetch"
    /\ ppc' = [ppc EXCEPT ![s] = "stalled"]
    /\ UNCHANGED <<mainVars, exit, group, consVars, chanVars, pos>>

\* Read sends the record into the channel; the send blocks while the
\* channel is full.
ReadSend(s) ==
    /\ Running /\ ppc[s] = "send"
    /\ ~closed[s]
    /\ Len(channel[s]) < capacity[s]
    /\ channel' = [channel EXCEPT ![s] = Append(channel[s], source[s][pos[s] + 1])]
    /\ pos' = [pos EXCEPT ![s] = pos[s] + 1]
    /\ ppc' = [ppc EXCEPT ![s] = "fetch"]
    /\ UNCHANGED <<mainVars, exit, group, consVars, capacity, closed, closedBy>>

\* The channel is closed: the record is discarded and Read returns.
ReadSendClosed(s) ==
    /\ Running /\ ppc[s] = "send"
    /\ closed[s]
    /\ ppc' = [ppc EXCEPT ![s] = "ok"]
    /\ UNCHANGED <<mainVars, exit, group, consVars, chanVars, pos>>

\* logger.Fatalf("Error occurred while reading records ..."): os.Exit(1).
ProducerFatal(s) ==
    /\ Running /\ ppc[s] = "err"
    /\ exit' = "fatal"
    /\ UNCHANGED <<mainVars, group, consVars, prodVars, chanVars>>

\* Variant of ProducerClose: the producer ends without closing the channel.
ProducerClose_NoClose(s) ==
    /\ Running /\ ppc[s] = "ok"
    /\ ppc' = [ppc EXCEPT ![s] = "finished"]
    /\ UNCHANGED <<mainVars, exit, group, consVars, chanVars, pos>>

\* safego.Close(channel) after Read returned nil.
ProducerClose(s) ==
    /\ Running /\ ppc[s] = "ok"
    /\ LET r == safegoClose(closed[s])
       IN  /\ closed' = [closed EXCEPT ![s] = r.closed]
           /\ closedBy' = IF closed[s] THEN closedBy
                          ELSE [closedBy EXCEPT ![s] = "producer"]
           /\ exit' = IF r.panic THEN "panic" ELSE exit
    /\ ppc' = [ppc EXCEPT ![s] = "finished"]
    /\ UNCHANGED <<mainVars, group, consVars, channel, capacity, pos>>

\* The consumer is suspended in its receive: the channel is empty and open.
ConsumerBlocked(s) == cpc[s] = "loop" /\ channel[s] = <<>> /\ ~closed[s]

----------------------------------------------------------------------------
Consumer(s) ==
    \/ ConsumerStart(s)
    \/ ConsumerRecv(s)
    \/ ConsumerCheck(s)
    \/ ConsumerLoopEnd(s)
    \/ ConsumerResolve(s)
    \/ ConsumerAttach(s)
    \/ ConsumerDone(s)
    \/ ConsumerFatal(s)

Producer(s) ==
    \/ ReadFetch(s)
    \/ ReadFail(s)
    \/ ReadSend(s)
    \/ ReadSendClosed(s)
    \/ ProducerFatal(s)
    \/ ProducerClose(s)

Main ==
    \/ MainAssert
    \/ MainSetup
    \/ MainCheck
    \/ MainDiscover
    \/ MainSpawn
    \/ MainWait
    \/ MainLogCatalog
    \/ MainReturn
    \/ MainFatal

Next ==
    \/ Main
    \/ \E s \in StreamNames : Consumer(s)
    \/ \E s \in StreamNames : Producer(s)

Spec == Init /\ [][Next]_vars

\* One enumerated stream, from the state in which Discover has returned it;
\* the Go scheduler runs every goroutine that can take a step.
PipelineInit ==
    \E s \in StreamNames, src \in Sources :
        /\ mpc = "spawn"
        /\ exit = "running"
        /\ streams = <<s>>
        /\ source = [x \in StreamNames |-> IF x = s THEN src ELSE <<>>]
        /\ mIdx = 1
        /\ group = 0
        /\ cpc = [x \in StreamNames |-> "none"]
        /\ ppc = [x \in StreamNames |-> "none"]
        /\ channel = [x \in StreamNames |-> <<>>]
        /\ capacity = [x \in StreamNames |-> 0]
        /\ closed = [x \in StreamNames |-> FALSE]
        /\ closedBy = [x \in StreamNames |-> "none"]
        /\ pos = [x \in StreamNames |-> 0]
        /\ count = [x \in StreamNames |-> 0]
        /\ objects = [x \in StreamNames |-> <<>>]
        /\ properties = [x \in StreamNames |-> NoSchema]
        /\ schema = [x \in StreamNames |-> [set |-> FALSE, properties |-> NoSchema]]
        /\ catalog = <<>>
        /\ doneOrder = <<>>

PipelineNext ==
    \/ MainSpawn
    \/ MainWait
    \/ MainLogCatalog
    \/ MainReturn
    \/ \E s \in StreamNames : Consumer(s)
    \/ \E s \in StreamNames : Producer(s)

FairPipelineSpec ==
    /\ PipelineInit
    /\ [][PipelineNext]_vars
    /\ WF_vars(MainSpawn \/ MainWait \/ MainLogCatalog \/ MainReturn)
    /\ \A s \in StreamNames : WF_vars(Consumer(s)) /\ WF_vars(Producer(s))

\* Two enumerated streams, from the point where Discover has returned them
\* and the range loop is about to start: both pipelines run concurrently.
PairInit ==
    \E src1 \in Sources, src2 \in Sources :
        /\ mpc = "spawn"
        /\ exit = "running"
        /\ streams = <<"s1", "s2">>
        /\ source = [x \in StreamNames |-> IF x = "s1" THEN src1 ELSE src2]
        /\ mIdx = 1
        /\ group = 0
        /\ cpc = [x \in StreamNames |-> "none"]
        /\ ppc = [x \in StreamNames |-> "none"]
        /\ channel = [x \in StreamNames |-> <<>>]
        /\ capacity = [x \in StreamNames |-> 0]
        /\ closed = [x \in StreamNames |-> FALSE]
        /\ closedBy = [x \in StreamNames |-> "none"]
        /\ pos = [x \in StreamNames |-> 0]
        /\ count = [x \in StreamNames |-> 0]
        /\ objects = [x \in StreamNames |-> <<>>]
        /\ properties = [x \in StreamNames |-> NoSchema]
        /\ schema = [x \in StreamNames |-> [set |-> FALSE, properties |-> NoSchema]]
        /\ catalog = <<>>
        /\ doneOrder = <<>>

PairSpec == PairInit /\ [][PipelineNext]_vars

\* Two enumerated streams <<t, s>>, from the state in which the pipeline of
\* t (a source shorter than recordsPerStream) has completed and the range
\* loop is about to start the pipeline of s; the Read of s may stall.
StallInit ==
    \E s \in StreamNames, src \in Sources :
      \E t \in StreamNames \ {s} :
        LET short == GoodSrc(recordsPerStream - 1)
        IN  /\ mpc = "spawn"
            /\ exit = "running"
            /\ streams = <<t, s>>
            /\ source = [x \in StreamNames |-> IF x = s THEN src ELSE short]
            /\ mIdx = 2
            /\ group = 0
            /\ cpc = [x \in StreamNames |-> IF x = s THEN "none" ELSE "done"]
            /\ ppc = [x \in StreamNames |-> IF x = s THEN "none" ELSE "finished"]
            /\ channel = [x \in StreamNames |-> <<>>]
            /\ capacity = [x \in StreamNames |->
                              IF x = s THEN 0 ELSE recordsPerStream]
            /\ closed = [x \in StreamNames |-> x # s]
            /\ closedBy = [x \in StreamNames |-> IF x = s THEN "none" ELSE "producer"]
            /\ pos = [x \in StreamNames |-> IF x = s THEN 0 ELSE Len(short)]
            /\ count = [x \in StreamNames |-> IF x = s THEN 0 ELSE Len(short)]
            /\ objects = [x \in StreamNames |-> IF x = s THEN <<>> ELSE short]
            /\ properties = [x \in StreamNames |->
                                IF x = s THEN NoSchema ELSE Resolve(short).properties]
            /\ schema = [x \in StreamNames |->
                            IF x = s THEN [set |-> FALSE, properties |-> NoSchema]
                            ELSE [set |-> TRUE, properties |-> Resolve(short).properties]]
            /\ catalog = <<>>
            /\ doneOrder = <<t>>

StallNext ==
    \/ PipelineNext
    \/ \E s \in StreamNames : ReadStall(s)

\* Every goroutine that can take a step is scheduled; a stalled Read has no
\* step to take.
FairStallSpec ==
    /\ StallInit
    /\ [][StallNext]_vars
    /\ WF_vars(MainSpawn \/ MainWait \/ MainLogCatalog \/ MainReturn)
    /\ \A s \in StreamNames : WF_vars(Consumer(s)) /\ WF_vars(Producer(s))

\* Records the resolver is checked on: scalars of every Kind, a missing and
\* a null field, nested objects and arrays.
ResolveRecords ==
    {Obj([f \in {"a"} |-> Scalar("integer")]),
     Obj([f \in {"a"} |-> Scalar("number")]),
     Obj([f \in {"a"} |-> Scalar("string")]),
     Obj([f \in {"a"} |-> Scalar("boolean")]),
     Obj([f \in {"a"} |-> Scalar("null")]),
     Obj(NoProps),
     Obj([f \in {"a"} |-> Obj([g \in {"b"} |-> Scalar("integer")])]),
     Obj([f \in {"a"} |-> Obj([g \in {"c"} |-> Scalar("string")])]),
     Obj([f \in {"a"} |-> Arr(<<Scalar("integer"), Scalar("string")>>)])}

Perms(n) ==
    {p \in [1..n -> 1..n] : \A i, j \in 1..n : i # j => p[i] # p[j]}

\* Two streams whose sources hold the same records in two arrival orders,
\* from the state in which both pipelines have drained their channel and
\* are about to call typing.Resolve.
ResolveInit ==
    \E n \in 1..MaxSample :
      \E q \in [1..n -> ResolveRecords], p \in Perms(n) :
        /\ mpc = "spawn"
        /\ exit = "running"
        /\ streams = <<"s1", "s2">>
        /\ source = [s \in StreamNames |->
                        IF s = "s1" THEN q ELSE [i \in 1..n |-> q[p[i]]]]
        /\ mIdx = 3
        /\ group = 2
        /\ cpc = [s \in StreamNames |-> "resolve"]
        /\ ppc = [s \in StreamNames |-> "finished"]
        /\ channel = [s \in StreamNames |-> <<>>]
        /\ capacity = [s \in StreamNames |-> recordsPerStream]
        /\ closed = [s \in StreamNames |-> TRUE]
        /\ closedBy = [s \in StreamNames |->
                          IF n < recordsPerStream THEN "producer" ELSE "consumer"]
        /\ pos = [s \in StreamNames |-> n]
        /\ count = [s \in StreamNames |-> n]
        /\ objects = source
        /\ properties = [s \in StreamNames |-> NoSchema]
        /\ schema = [s \in StreamNames |-> [set |-> FALSE, properties |-> NoSchema]]
        /\ catalog = <<>>
        /\ doneOrder = <<>>

ResolveNext == \E s \in StreamNames : ConsumerResolve(s)

ResolveSpec == ResolveInit /\ [][ResolveNext]_vars

----------------------------------------------------------------------------
\* Properties

\* The pipeline of s has left its receive loop.
AfterLoop == {"resolve", "attach", "signal", "done", "fatal"}

\* logger.LogCatalog has been called.
Emitted == mpc \in {"logged", "returned"}

\* connector.Read of s has returned nil.
ReadReturnedNil(s) == ppc[s] \in {"ok", "finished"}

\* C1: in every reachable state the sample buffer of every stream holds at
\* most recordsPerStream records.
C1_SampleWithinCap ==
    \A s \in StreamNames : Len(objects[s]) <= recordsPerStream

\* C2: when the receive loop of a stream whose source offers at least
\* recordsPerStream records and whose Read returned without error has ended,
\* the sample holds exactly recordsPerStream records.
C2_ExactlyCapRetained ==
    \A s \in StreamNames :
        (cpc[s] \in AfterLoop /\ Len(source[s]) >= recordsPerStream
            /\ ReadReturnedNil(s))
        => Len(objects[s]) = recordsPerStream

\* C3: when the receive loop of a stream whose source offers fewer than
\* recordsPerStream records has ended, the sample equals the source sequence,
\* Read has returned nil and the channel was closed by the producer's close.
C3_ShortSourceSampledWhole ==
    \A s \in StreamNames :
        (cpc[s] \in AfterLoop /\ Len(source[s]) < recordsPerStream)
        => /\ objects[s] = source[s]
           /\ count[s] = Len(source[s])
           /\ ppc[s] = "finished"
           /\ closedBy[s] = "producer"

C3_Witness ==
    \E s \in StreamNames :
        /\ cpc[s] = "done"
        /\ Len(source[s]) = recordsPerStream - 1
        /\ Len(objects[s]) > 0
        /\ objects[s] = source[s]

\* C4: the catalog is emitted only when every enumerated stream's pipeline
\* has left its loop, resolved its sample without error, attached the
\* resulting schema and called group.Done; every catalog entry carries a
\* resolved schema.
C4_CatalogOnlyWhenAllSucceeded ==
    Emitted =>
        /\ \A s \in Range(streams) :
              /\ cpc[s] = "done"
              /\ ~Resolve(objects[s]).err
              /\ schema[s].set
              /\ schema[s].properties = Resolve(objects[s]).properties
        /\ \A i \in DOMAIN catalog : catalog[i].schema.set
        /\ {catalog[i].name : i \in DOMAIN catalog} = Range(streams)

C4_Witness ==
    /\ Emitted
    /\ Len(streams) = 2
    /\ \A s \in Range(streams) : Len(objects[s]) > 0

\* C5: once the Read of any stream has returned an error, no step emits the
\* catalog.
C5_ReadErrorPreventsCatalog ==
    [][(\E s \in StreamNames : ppc[s] = "err") => (Emitted' => Emitted)]_vars

\* C6: when Discover returned zero streams the run is at its Fatal call (or
\* has exited through it): no pipeline or producer was started, no channel
\* made, Read never called, and no catalog emitted.
C6_EmptyDiscoveryFailsFirst ==
    (Len(streams) = 0 /\ mpc \notin {"assert", "setup", "check", "discover", "fatal"})
    => /\ mpc = "nostreams"
       /\ exit \in {"running", "fatal"}
       /\ group = 0
       /\ ~Emitted /\ catalog = <<>>
       /\ \A s \in StreamNames :
             /\ cpc[s] = "none" /\ ppc[s] = "none"
             /\ channel[s] = <<>> /\ pos[s] = 0 /\ objects[s] = <<>>

C6_Witness ==
    mpc = "nostreams" /\ exit = "fatal" /\ Len(streams) = 0

\* C7: the emitted catalog has exactly one entry per enumerated stream, in
\* enumeration order, each carrying that stream's schema slot.
C7_CatalogInEnumerationOrder ==
    Emitted =>
        /\ Len(catalog) = Len(streams)
        /\ \A i \in DOMAIN streams :
              /\ catalog[i].name = streams[i]
              /\ catalog[i].schema = schema[streams[i]]

\* Two streams whose pipelines finished in the reverse of enumeration order.
C7_Witness ==
    /\ Emitted
    /\ Len(streams) = 2
    /\ doneOrder = <<streams[2], streams[1]>>

\* C8: a pipeline past its receive loop has a closed and drained channel, and
\* no step changes the sample buffer or the count of a pipeline that is past
\* its receive loop.
C8_ResolveAfterDrain ==
    /\ [](\A s \in StreamNames :
            cpc[s] \in AfterLoop => (closed[s] /\ channel[s] = <<>>))
    /\ [][\A s \in StreamNames :
            cpc[s] \in AfterLoop =>
                /\ objects'[s] = objects[s]
                /\ count'[s] = count[s]
                /\ channel'[s] = <<>>]_vars

\* The producer is still trying to send while the sample is past resolution.
C8_Witness ==
    \E s \in StreamNames :
        cpc[s] \in {"attach", "signal", "done"} /\ ppc[s] = "send"

\* C9: no close and no send panics; once the channel is closed it stays
\* closed, keeps its first closer and takes no further record; a pipeline
\* that signalled early-stop is never left waiting on its channel, and it
\* goes on to resolve, attach and call group.Done unless the process exits.
C9_LateSendAndCloseTolerated ==
    /\ [](exit # "panic")
    /\ [](\A s \in StreamNames :
            closedBy[s] = "consumer" => ~ConsumerBlocked(s))
    /\ [][\A s \in StreamNames :
            closed[s] =>
                /\ closed'[s]
                /\ closedBy'[s] = closedBy[s]
                /\ Len(channel'[s]) <= Len(channel[s])]_vars
    /\ \A s \in StreamNames :
            (closedBy[s] = "consumer") ~> (cpc[s] = "done" \/ ~Running)

\* After the early-stop the consumer closed again on a later record, the
\* producer's send was discarded, the producer closed too, and the pipeline
\* completed.
C9_Witness ==
    \E s \in StreamNames :
        /\ closedBy[s] = "consumer"
        /\ count[s] > recordsPerStream
        /\ ppc[s] = "finished"
        /\ pos[s] < Len(source[s])
        /\ cpc[s] = "done"

\* C10: the records pushed and not yet received never exceed the channel's
\* capacity, and no step taken while the channel is full and open advances
\* the producer.
C10_Backpressure ==
    /\ [](\A s \in StreamNames :
            /\ pos[s] - count[s] <= recordsPerStream
            /\ Len(channel[s]) <= recordsPerStream)
    /\ [][\A s \in StreamNames :
            (Len(channel[s]) = recordsPerStream /\ ~closed[s] /\ ppc[s] = "send")
            => (pos'[s] = pos[s] /\ ppc'[s] = "send")]_vars

\* The producer is blocked on a full channel.
C10_Witness ==
    \E s \in StreamNames :
        /\ Len(channel[s]) = recordsPerStream
        /\ ~closed[s]
        /\ ppc[s] = "send"

\* b holds the records of a in some arrival order.
SameRecords(a, b) ==
    /\ Len(a) = Len(b)
    /\ \E p \in Perms(Len(a)) : b = [i \in 1..Len(a) |-> a[p[i]]]

\* Both pipelines have come back from typing.Resolve.
BothResolved ==
    \A s \in StreamNames : cpc[s] \in {"attach", "fatal"}

RECURSIVE UnorderedDesc(_)
RECURSIVE UnorderedProps(_)
\* A type descriptor with its union members as a set.
UnorderedDesc(d) ==
    [type     |-> Range(d.type),
     nullable |-> d.nullable,
     props    |-> UnorderedProps(d.props),
     elem     |-> [i \in DOMAIN d.elem |-> UnorderedDesc(d.elem[i])]]

UnorderedProps(ps) == [f \in DOMAIN ps |-> UnorderedDesc(ps[f])]

C12_BarrierWaitsForProducers ==
    Emitted =>
        \A s \in Range(streams) : cpc[s] = "done" /\ ppc[s] = "finished"

\* Every Read returns: none fails, none stalls.
ReadsReturn ==
    \A s \in StreamNames : ppc[s] \notin {"err", "stalled"}

\* Every sampled value is a field->value mapping, so every resolution succeeds.
ResolutionsSucceed ==
    \A s \in StreamNames : \A i \in DOMAIN source[s] : source[s][i].kind = "object"

\* C13: with a non-empty stream list, finite sources, every Read returning
\* without error and every resolution succeeding, under fair scheduling every
\* receive loop ends, every pipeline reaches group.Done, the barrier releases
\* and the catalog is emitted.
C13_CatalogEventuallyEmitted ==
    (Len(streams) > 0 /\ ResolutionsSucceed /\ []ReadsReturn)
    => <>(/\ Emitted
          /\ group = 0
          /\ \A s \in Range(streams) : cpc[s] = "done" /\ closed[s])

\* The catalog is emitted after the consumer signalled early-stop with the
\* channel full and the producer still holding a record to send.
C13_Witness ==
    /\ Emitted
    /\ \E s \in StreamNames :
          /\ closedBy[s] = "consumer"
          /\ Len(objects[s]) = 2 * recordsPerStream
          /\ pos[s] < Len(source[s])

\* The Read of s has stalled after delivering fewer than recordsPerStream
\* records.
StalledShort(s) == ppc[s] = "stalled" /\ pos[s] < recordsPerStream

\* The Read of s has stalled after delivering recordsPerStream records or more.
StalledLate(s) == ppc[s] = "stalled" /\ pos[s] >= recordsPerStream

\* C14: a Read stalled after fewer than recordsPerStream records stays
\* stalled, its consumer stays in the receive loop on an open channel, ends
\* up suspended in its receive and stays so, and no step emits the catalog,
\* although the other stream's pipeline has completed; a Read stalled after
\* recordsPerStream records or more does not keep the pipeline from
\* completing and the catalog from being emitted.
C14_StalledReadStallsRun ==
    /\ [](\A s \in StreamNames :
            StalledShort(s) =>
                /\ cpc[s] \in {"loop", "check"}
                /\ ~closed[s]
                /\ group > 0
                /\ ~Emitted)
    /\ [][\A s \in StreamNames :
            StalledShort(s) =>
                /\ StalledShort(s)'
                /\ ~Emitted'
                /\ (ConsumerBlocked(s) => ConsumerBlocked(s)')]_vars
    /\ \A s \in StreamNames : StalledShort(s) ~> ConsumerBlocked(s)
    /\ \A s \in StreamNames : StalledLate(s) ~> (cpc[s] = "done" /\ Emitted)

\* The Read of s has stalled after a first record, its consumer is suspended
\* in its receive, and the other stream's pipeline has completed.
C14_Witness ==
    \E s \in StreamNames :
        /\ StalledShort(s)
        /\ pos[s] > 0
        /\ ConsumerBlocked(s)
        /\ \E t \in StreamNames \ {s} : cpc[t] = "done" /\ ppc[t] = "finished"
        /\ mpc = "spawn" /\ mIdx > Len(streams)

\* The sample of s is final: the consumer loop of s has ended normally.
SampleFinal(s) == cpc[s] \in {"resolve", "attach", "signal", "done"}

\* C15: two streams with the same source sequence whose reads do not fail
\* hand the same SampleSet (same length, same contents) to the resolver,
\* however their producers and consumers were interleaved.
C15_SampleIndependentOfTiming ==
    \A s, t \in Range(streams) :
        (/\ source[s] = source[t]
         /\ SampleFinal(s) /\ SampleFinal(t)
         /\ ppc[s] # "err" /\ ppc[t] # "err")
        => objects[s] = objects[t]

\* C16: in every reachable state the sample buffer of every stream is a
\* prefix of the stream's source sequence (source order, no duplicate, no
\* gap), the records received and those still buffered in the channel are
\* together exactly the records sent, and count is the buffer's length.
C16_SampleIsSourcePrefix ==
    \A s \in StreamNames :
        /\ Len(objects[s]) <= Len(source[s])
        /\ objects[s] = SubSeq(source[s], 1, Len(objects[s]))
        /\ objects[s] \o channel[s] = SubSeq(source[s], 1, pos[s])
        /\ count[s] = Len(objects[s])

\* The early-stop race: the consumer has closed the channel while the
\* producer holds a record to send, and has since received a record that
\* was buffered at the close.
C16_Witness ==
    \E s \in StreamNames :
        /\ closedBy[s] = "consumer"
        /\ ppc[s] = "send"
        /\ Len(objects[s]) > recordsPerStream
        /\ cpc[s] = "check"


\* The step leaves the goroutine-local state and the schema slot of every
\* stream other than s as they are.
OthersUnchanged(s) ==
    \A t \in StreamNames \ {s} :
        /\ cpc'[t] = cpc[t] /\ ppc'[t] = ppc[t] /\ pos'[t] = pos[t]
        /\ count'[t] = count[t] /\ capacity'[t] = capacity[t]
        /\ closed'[t] = closed[t] /\ closedBy'[t] = closedBy[t]
        /\ channel'[t] = channel[t] /\ objects'[t] = objects[t]
        /\ properties'[t] = properties[t] /\ schema'[t] = schema[t]

\* C17: every step of the consumer or the producer of a stream leaves the
\* channel, the sample buffer, the count and the schema slot of every other
\* stream unchanged, and the main goroutine's variables too; of the
\* WaitGroup only the counter is touched.  Stated step by step: a step that
\* changes any of these is not a step of that stream's consumer or producer.
C17_PipelinesShareNoState ==
    [][\A s \in StreamNames :
          (\/ ~OthersUnchanged(s)
           \/ mainVars' # mainVars
           \/ group' \notin {group, group - 1})
          => ~(Consumer(s) \/ Producer(s))]_vars

\* Two pipelines are at work at once: one has attached its schema while the
\* other still holds sampled and buffered records and has no schema yet.
C17_Witness ==
    \E s, t \in StreamNames :
        /\ s # t
        /\ cpc[s] = "signal" /\ schema[s].set
        /\ cpc[t] = "loop" /\ ~schema[t].set
        /\ objects[t] # <<>> /\ channel[t] # <<>>


\* group.Wait() has returned.
BarrierReleased == mpc \in {"assemble", "logged", "returned"}

\* C18: a schema slot changes only in its own pipeline's WithJSONSchema
\* step, from unset to the properties that pipeline resolved, before its
\* group.Done() and before group.Wait() returns; so a slot is set exactly
\* while its pipeline is between WithJSONSchema and the end, each slot is
\* written at most once, after a successful run every enumerated stream's
\* slot has been written, and after the barrier no schema changes.
C18_SchemaWrittenOnce ==
    /\ [][\A s \in StreamNames :
            schema'[s] # schema[s] =>
                /\ ConsumerAttach(s)
                /\ ~schema[s].set /\ schema'[s].set
                /\ schema'[s].properties = Resolve(objects[s]).properties
                /\ cpc[s] = "attach" /\ cpc'[s] = "signal"
                /\ ~BarrierReleased]_vars
    /\ [][BarrierReleased => schema' = schema]_vars
    /\ [](\A s \in StreamNames : schema[s].set <=> cpc[s] \in {"signal", "done"})
    /\ [](exit = "ok" => \A s \in Range(streams) : schema[s].set)

\* A successful run over two streams: both slots hold the (non-empty)
\* properties their pipelines resolved.
C18_Witness ==
    /\ exit = "ok" /\ Len(streams) = 2
    /\ \A s \in Range(streams) :
          /\ schema[s].set
          /\ schema[s].properties # NoSchema
          /\ schema[s].properties = Resolve(objects[s]).properties


====
